---------------------------- MODULE Spec2Model ----------------------------
(***************************************************************************)
(* Ordered delivery and at-least-once consumption in ticket-processor.     *)
(*                                                                         *)
(* The producer side is internal/kafka/producer.go (NewProducer,           *)
(* SendTicket) driven by cmd/producer/main.go and by direct callers such   *)
(* as producer_test.go.  The consumer side is the consume loop of          *)
(* cmd/consumer/main.go with its ConsumerHandler, and the kafka.Handler of *)
(* internal/kafka/consumer.go.  The broker (partition logs, committed      *)
(* offsets) and the sarama session protocol are the environment.           *)
(***************************************************************************)
EXTENDS Integers, Sequences, FiniteSets, TLC

\* ------------------------------------------------------------------ bounds

\* Records the topic holds at most (over all partitions).
MaxLog == 3
\* Records of other writers (no tickets) the topic holds at most.
MaxForeign == 1
\* Consumer processes started at most (the first start included).
MaxStarts == 3
\* Calls of Consume one consumer process makes at most.
MaxAttempts == 2
\* Errors the consumer group puts on its Errors() channel in one process at most.
MaxAsyncErrors == 1

\* Partitions of the topic.
NumPartitions == 2
Partitions == 0..(NumPartitions - 1)

\* Order identifiers a direct caller of SendTicket passes (the producer loop
\* passes its ticketCounter).
OrderIDs == {-1, 0, 1, 10}
\* Ticket.ID values, as the bytes of a one-letter string ("a", "b").
TicketIDs == {<<97>>, <<98>>}

Nil == "nil"

\* ------------------------------------------------- keys and partitioning

\* Mutant: digits without leading zeros, so that 0 has none.
RECURSIVE DigitsNoZero(_)
DigitsNoZero(n) == IF n = 0 THEN <<>> ELSE DigitsNoZero(n \div 10) \o <<48 + (n % 10)>>

\* The decimal digits of a natural number, as bytes.
RECURSIVE Digits(_)
Digits(n) == IF n < 10 THEN <<48 + n>> ELSE Digits(n \div 10) \o <<48 + (n % 10)>>

\* strconv.FormatInt(n, 10), as bytes: a '-' sign for negative numbers.
FormatInt(n) == IF n < 0 THEN <<45>> \o Digits(0 - n) ELSE Digits(n)

\* Mutant: the key is taken from the ticket's ID instead of its OrderID.
KeyFromID(ticket) == ticket.ID

\* The message key SendTicket sets: the decimal string of ticket.OrderID.
MessageKey(ticket) == FormatInt(ticket.OrderID)

\* Bitwise exclusive or of two naturals.
RECURSIVE BitXor(_, _)
BitXor(a, b) ==
    IF a = 0 THEN b
    ELSE IF b = 0 THEN a
    ELSE (((a % 2) + (b % 2)) % 2) + 2 * BitXor(a \div 2, b \div 2)

\* One step of 32-bit FNV-1a on a hash kept as two 16-bit halves <<hi, lo>>:
\* h := (h XOR byte) * 16777619 mod 2^32, with 16777619 = 256 * 2^16 + 403.
FnvStep(h, byte) ==
    LET lo == BitXor(h[2], byte)
        hi == h[1]
        p  == lo * 403
    IN  << (hi * 403 + lo * 256 + (p \div 65536)) % 65536, p % 65536 >>

\* FNV-1a of a byte string from the offset basis 0x811C9DC5.
RECURSIVE Fnv32a(_, _)
Fnv32a(h, bytes) ==
    IF bytes = <<>> THEN h ELSE Fnv32a(FnvStep(h, Head(bytes)), Tail(bytes))

\* The hash partitioner: int32(hash) % numPartitions, negated when negative.
HashPartition(key) ==
    LET h   == Fnv32a(<<33052, 40389>>, key)
        neg == h[1] >= 32768
        lo  == IF neg THEN (65536 - h[2]) % 65536 ELSE h[2]
        hi  == IF neg THEN 65535 - h[1] + (IF h[2] = 0 THEN 1 ELSE 0) ELSE h[1]
    IN  ((hi % NumPartitions) * (65536 % NumPartitions) + lo) % NumPartitions

\* ------------------------------------------------------------------ state

VARIABLES
    log,              \* broker: partition -> sequence of records
    committed,        \* broker: partition -> committed offset of the group
    producer,         \* the *Producer the producer side uses
    ppc,              \* cmd/producer main: "select", "inSend", "crashed", "exited"
    ticketCounter,    \* cmd/producer main: ticketCounter
    call,             \* the SendTicket call in flight, or the last one made
    MessagesProduced, \* producer process: messages_produced_total
    ProducerErrors,   \* producer process: errors_total
    hkind,            \* which handler consumes: "ConsumerHandler" or "Handler"
    cproc,            \* consumer process: "running", "exited", or how it died:
                      \* "killed", "closePanic" (close of a closed channel),
                      \* "donePanic" (negative WaitGroup counter)
    mpc,              \* cmd/consumer main goroutine
    lpc,              \* cmd/consumer consume-loop goroutine
    ctxCancelled,     \* cancel() has been called
    wg,               \* the WaitGroup counter
    readyCh,          \* the channel handler.ready refers to
    closedCh,         \* the ready channels that are closed
    mainCh,           \* the channel main receives from at line 82 (-1: not read yet)
    attempts,         \* calls of Consume this process has made
    position,         \* session: partition -> next offset the claim hands out
    marked,           \* session: partition -> offset marked for commit
    buffered,         \* session: partition -> end of the records buffered at session end
    cl,               \* ConsumeClaim loop of a partition: "range", "got", "processed"
    MessagesConsumed, \* consumer process: messages_consumed_total
    ErrorsCount,      \* consumer process: errors_total
    redeliv,          \* history: the records handled but not committed when the
                      \* process first died -> times ConsumeClaim got each since
    handled,          \* history: <<partition, offset>> whose handling has finished
    starts,           \* history: consumer processes started
    crashes,          \* history: consumer processes that died by a kill or a panic
    member,           \* coordinator: the consumer processes (by start number) it
                      \* holds as members of the group
    errorsCh,         \* errors waiting on the consumer group's Errors() channel
    pulled,           \* history: records Handler.ConsumeClaim received in this process
    markCalls,        \* history: MarkMessage calls Handler.ConsumeClaim made in this process
    backOff           \* the backoff policy CreateBackOff built, as NextBackOff drives it

brokerVars   == <<log, committed>>
producerVars == <<producer, ppc, ticketCounter, call, MessagesProduced, ProducerErrors>>
processVars  == <<cproc, mpc, lpc, ctxCancelled, wg, readyCh, closedCh, mainCh, attempts>>
sessionVars  == <<position, marked, buffered, cl>>
metricVars   == <<MessagesConsumed, ErrorsCount>>
historyVars  == <<redeliv, handled, starts, crashes>>
groupVars    == <<member, errorsCh>>
countVars    == <<pulled, markCalls>>
kafkaVars    == <<brokerVars, producerVars, hkind, processVars, sessionVars, metricVars,
                 historyVars, groupVars, countVars>>
vars == <<kafkaVars, backOff>>

\* --------------------------------------------------------------- helpers

\* Mutant: the smaller of two offsets is kept.
Min(a, b) == IF a <= b THEN a ELSE b

\* The larger of two offsets: a marked or committed offset only advances.
Max(a, b) == IF a >= b THEN a ELSE b

RECURSIVE SumLen(_, _)
SumLen(f, S) ==
    IF S = {} THEN 0
    ELSE LET p == CHOOSE x \in S : TRUE IN Len(f[p]) + SumLen(f, S \ {p})

\* Records in the topic, over all partitions.
TotalLen == SumLen(log, Partitions)

\* Timestamps of a ticket: a year time.Time can marshal, and one it cannot
\* (MarshalJSON fails outside [0, 9999]).
Timestamps == {2026, 10000}
DataValues == {"test-data"}

\* models.Ticket values a direct caller passes.
Tickets == [ID : TicketIDs, Timestamp : Timestamps, OrderID : OrderIDs, Data : DataValues]

\* json.Marshal(ticket): the JSON object, or an error for a year out of range.
Marshal(ticket) ==
    IF ticket.Timestamp > 9999
    THEN [err |-> "marshal", data |-> Nil]
    ELSE [err |-> Nil,
          data |-> [json |-> TRUE, id |-> ticket.ID, timestamp |-> ticket.Timestamp,
                    order_id |-> ticket.OrderID, data |-> ticket.Data]]

\* Bytes that are no JSON object.
Garbage == [json |-> FALSE]

\* json.Unmarshal(value, &ticket): the error, and the ticket decoded.
Unmarshal(value) ==
    IF value.json
    THEN [err |-> Nil,
          ticket |-> [ID |-> value.id, Timestamp |-> value.timestamp,
                      OrderID |-> value.order_id, Data |-> value.data]]
    ELSE [err |-> "syntax", ticket |-> Nil]

\* ---------------------------------------------------------------- broker

\* The record the broker appends for a message: its key, its value, and the
\* number of records appended before it (the order of publication).
LogRecord(msg) == [key |-> msg.Key, value |-> msg.Value, seq |-> TotalLen]

\* Records of a sequence that are not a ticket's JSON.
RECURSIVE CountForeign(_)
CountForeign(recs) ==
    IF recs = <<>> THEN 0
    ELSE (IF Head(recs).value.json THEN 0 ELSE 1) + CountForeign(Tail(recs))

RECURSIVE SumForeign(_)
SumForeign(S) ==
    IF S = {} THEN 0
    ELSE LET p == CHOOSE x \in S : TRUE IN CountForeign(log[p]) + SumForeign(S \ {p})

\* Another writer of the topic appends bytes that are no ticket.
ForeignAppend(p) ==
    /\ TotalLen < MaxLog
    /\ SumForeign(Partitions) < MaxForeign
    /\ log' = [log EXCEPT ![p] = Append(@, LogRecord([Key |-> <<>>, Value |-> Garbage]))]
    /\ UNCHANGED <<committed, producerVars, hkind, backOff, processVars, sessionVars,
                   metricVars, historyVars,
                   groupVars, countVars>>

\* -------------------------------------------------------------- producer

\* NewProducer: the sarama configuration and the Producer built over it; the
\* metrics field is left unset.
NewProducer ==
    [topic |-> "tickets", RequiredAcks |-> "WaitForAll", RetryMax |-> 5,
     Idempotent |-> TRUE, Partitioner |-> "hash", metrics |-> Nil]

\* No SendTicket call has been made yet.
NoCall ==
    [pc |-> "idle", caller |-> Nil, msg |-> Nil, seq |-> -1, err |-> Nil,
     outcome |-> "none", produced0 |-> 0, errors0 |-> 0, retries |-> 0]

CallFree == call.pc \in {"idle", "done"}

\* SendTicket up to SendMessage: marshal the ticket and build the message; a
\* marshalling error is returned before anything is sent.
SendTicketBegin(caller, ticket) ==
    LET m == Marshal(ticket) IN
    IF m.err # Nil
    THEN [pc |-> "done", caller |-> caller, msg |-> Nil, seq |-> -1, err |-> m.err,
          outcome |-> "err",
          produced0 |-> MessagesProduced, errors0 |-> ProducerErrors, retries |-> 0]
    ELSE [pc |-> "sending", caller |-> caller,
          msg |-> [Topic |-> producer.topic, Key |-> MessageKey(ticket),
                   Value |-> m.data, Timestamp |-> ticket.Timestamp],
          seq |-> -1, err |-> Nil, outcome |-> "none",
          produced0 |-> MessagesProduced, errors0 |-> ProducerErrors, retries |-> 0]

\* cmd/producer main, case <-ticker.C: build the ticket of ticketCounter and
\* call SendTicket.
ProducerTick(id) ==
    /\ ppc = "select"
    /\ CallFree
    /\ TotalLen < MaxLog
    /\ call' = SendTicketBegin("main",
                   [ID |-> id, Timestamp |-> 2026, OrderID |-> ticketCounter,
                    Data |-> "Ticket data"])
    /\ ppc' = "inSend"
    /\ UNCHANGED <<brokerVars, producer, ticketCounter, MessagesProduced, ProducerErrors,
                   hkind, backOff, processVars, sessionVars, metricVars, historyVars,
                   groupVars, countVars>>

\* A direct caller of SendTicket on a producer from NewProducer (as
\* TestProducer_SendTicket is).
CallSendTicket(ticket) ==
    /\ ppc # "inSend"
    /\ CallFree
    /\ TotalLen < MaxLog
    /\ call' = SendTicketBegin("caller", ticket)
    /\ UNCHANGED <<brokerVars, producer, ppc, ticketCounter, MessagesProduced,
                   ProducerErrors, hkind, backOff, processVars, sessionVars, metricVars,
                   historyVars,
                   groupVars, countVars>>

\* Mutant: the partition is chosen in turn, whatever the key.
RoundRobinPartition(key) == TotalLen % NumPartitions

\* The partition of a message: the producer's partitioner on its key.
PartitionOf(key) == HashPartition(key)

\* The broker appends the message in flight to the partition of its key.
BrokerAppend ==
    /\ call.pc = "sending"
    /\ TotalLen < MaxLog
    /\ log' = [log EXCEPT ![PartitionOf(call.msg.Key)] = Append(@, LogRecord(call.msg))]
    /\ call' = [call EXCEPT !.pc = "appended", !.seq = TotalLen]
    /\ UNCHANGED <<committed, producer, ppc, ticketCounter, MessagesProduced,
                   ProducerErrors, hkind, backOff, processVars, sessionVars, metricVars,
                   historyVars,
                   groupVars, countVars>>

\* Mutant: success is reported without waiting for the broker (no acks).
AckedNoResponse(c) == c.pc \in {"sending", "appended"}

\* RequiredAcks = WaitForAll on a SyncProducer: SendMessage returns nil only
\* once the record is in the log.
Acked(c) == c.pc = "appended"

\* The ceiling of the retry delay RetryConfig names (2 s), in milliseconds.
MaxInterval == 2000

\* The delay before the n-th retry inside SendMessage, in milliseconds: the
\* configuration of NewProducer keeps the client's constant Retry.Backoff of
\* 100 ms; RetryConfig and CreateBackOff are used nowhere.
RetryBackoff(n) == 100

\* Inside SendMessage the client sends the message again after a transient
\* error, at most Retry.Max times. With Idempotent = true the broker knows a
\* message it has appended by its sequence number and does not append it again.
SendMessageRetry ==
    /\ call.pc \in {"sending", "appended"}
    /\ call.retries < producer.RetryMax
    /\ call' = [call EXCEPT !.retries = @ + 1,
                            !.pc = IF producer.Idempotent THEN call.pc ELSE "sending"]
    /\ UNCHANGED <<brokerVars, producer, ppc, ticketCounter, MessagesProduced,
                   ProducerErrors, hkind, backOff, processVars, sessionVars, metricVars,
                   historyVars, groupVars, countVars>>

\* SendMessage returns nil.
SendMessageOk ==
    /\ Acked(call)
    /\ call' = [call EXCEPT !.pc = "sent", !.err = Nil]
    /\ UNCHANGED <<brokerVars, producer, ppc, ticketCounter, MessagesProduced,
                   ProducerErrors, hkind, backOff, processVars, sessionVars, metricVars,
                   historyVars,
                   groupVars, countVars>>

\* SendMessage returns an error: the broker was unavailable (nothing was
\* appended), or the acknowledgement did not arrive in time (the record was).
SendMessageErr ==
    /\ call.pc \in {"sending", "appended"}
    /\ call' = [call EXCEPT !.pc = "sent",
                            !.err = IF call.pc = "sending" THEN "unavailable" ELSE "timeout"]
    /\ UNCHANGED <<brokerVars, producer, ppc, ticketCounter, MessagesProduced,
                   ProducerErrors, hkind, backOff, processVars, sessionVars, metricVars,
                   historyVars,
                   groupVars, countVars>>

\* SendTicket after SendMessage (lines 56-62): count on p.metrics, which
\* panics when the field is nil, and return.
SendTicketOutcome(c) ==
    IF producer.metrics = Nil THEN "panic"
    ELSE IF c.err # Nil THEN "err" ELSE "nil"

\* What the producer loop does with the result (lines 77-88): a panic ends
\* the process, an error is logged and the loop goes on, success advances
\* ticketCounter.
SendTicketReturn ==
    /\ call.pc = "sent"
    /\ LET out == SendTicketOutcome(call) IN
        /\ call' = [call EXCEPT !.pc = "done", !.outcome = out, !.msg = Nil, !.seq = -1,
                                !.retries = 0]
        /\ MessagesProduced' = IF out = "nil" THEN MessagesProduced + 1 ELSE MessagesProduced
        /\ ProducerErrors' = IF out = "err" THEN ProducerErrors + 1 ELSE ProducerErrors
        /\ IF call.caller = "main"
           THEN /\ ppc' = IF out = "panic" THEN "crashed" ELSE "select"
                /\ ticketCounter' = IF out = "nil" THEN ticketCounter + 1 ELSE ticketCounter
           ELSE UNCHANGED <<ppc, ticketCounter>>
    /\ UNCHANGED <<brokerVars, producer, hkind, backOff, processVars, sessionVars, metricVars,
                   historyVars,
                   groupVars, countVars>>

\* cmd/producer main, case <-signals: return.
ProducerSignal ==
    /\ ppc = "select"
    /\ ppc' = "exited"
    /\ UNCHANGED <<brokerVars, producer, ticketCounter, call, MessagesProduced,
                   ProducerErrors, hkind, backOff, processVars, sessionVars, metricVars,
                   historyVars,
                   groupVars, countVars>>

\* The producer process is started again: a new Producer, ticketCounter 0.
ProducerStart ==
    /\ ppc \in {"crashed", "exited"}
    /\ ppc' = "select"
    /\ producer' = NewProducer
    /\ ticketCounter' = 0
    /\ MessagesProduced' = 0
    /\ ProducerErrors' = 0
    /\ UNCHANGED <<brokerVars, call, hkind, backOff, processVars, sessionVars, metricVars,
                   historyVars,
                   groupVars, countVars>>

ProducerNext ==
    \/ \E id \in TicketIDs : ProducerTick(id)
    \/ \E t \in Tickets : CallSendTicket(t)
    \/ BrokerAppend
    \/ SendMessageOk
    \/ SendMessageErr
    \/ SendTicketReturn
    \/ ProducerSignal
    \/ ProducerStart

\* -------------------------------------------------------------- consumer

HandlerKinds == {"ConsumerHandler", "Handler"}

InSession == lpc \in {"session", "draining"}

\* The record a partition's ConsumeClaim loop holds (handed out last).
CurOffset(p) == position[p] - 1
CurRecord(p) == log[p][position[p]]

\* One past the last record of a partition whose handling has finished.
HandledUpTo(p) ==
    LET S == {e[2] : e \in {h \in handled : h[1] = p}} IN
    IF S = {} THEN 0 ELSE 1 + (CHOOSE m \in S : \A x \in S : x <= m)

\* A consumer process as main builds it (lines 54-68): wg.Add(1), a handler
\* with a fresh ready channel, the consume loop about to call Consume.
FreshProcess ==
    /\ cproc' = "running"
    /\ mpc' = "start"
    /\ lpc' = "consume"
    /\ ctxCancelled' = FALSE
    /\ wg' = 1
    /\ readyCh' = 0
    /\ closedCh' = {}
    /\ mainCh' = -1
    /\ attempts' = 0
    /\ errorsCh' = 0
    /\ pulled' = 0
    /\ markCalls' = 0

FreshSession ==
    /\ position' = [p \in Partitions |-> 0]
    /\ marked' = [p \in Partitions |-> 0]
    /\ buffered' = [p \in Partitions |-> 0]
    /\ cl' = [p \in Partitions |-> "range"]

\* The process is gone (killed, panicked or returned from main): what it held
\* in memory is lost; the broker keeps the log and the committed offsets.
ProcessGone(how) ==
    /\ cproc' = how
    /\ mpc' = IF how = "exited" THEN "returned" ELSE "dead"
    /\ lpc' = "dead"
    /\ ctxCancelled' = FALSE
    /\ wg' = 0
    /\ readyCh' = 0
    /\ closedCh' = {}
    /\ mainCh' = -1
    /\ attempts' = 0
    /\ FreshSession
    /\ MessagesConsumed' = 0
    /\ ErrorsCount' = 0
    /\ errorsCh' = 0
    /\ pulled' = 0
    /\ markCalls' = 0

\* The process dies by a kill or a panic; the first time, note the records
\* whose handling had finished and whose offset was not committed. The
\* coordinator still holds the process as a member.
Crash(how) ==
    /\ ProcessGone(how)
    /\ crashes' = crashes + 1
    /\ redeliv' = IF crashes = 0
                  THEN [h \in {x \in handled : x[2] >= committed[x[1]]} |-> 0]
                  ELSE redeliv
    /\ UNCHANGED <<brokerVars, producerVars, hkind, backOff, handled, starts, member>>

\* The consumer process is killed.
Kill ==
    /\ cproc = "running"
    /\ Crash("killed")

\* The consumer process is started (again) in the same group.
StartConsumer ==
    /\ cproc # "running"
    /\ starts < MaxStarts
    /\ FreshProcess
    /\ FreshSession
    /\ MessagesConsumed' = 0
    /\ ErrorsCount' = 0
    /\ starts' = starts + 1
    /\ UNCHANGED <<brokerVars, producerVars, hkind, backOff, redeliv, handled, crashes, member>>

\* Consume returns an error before a session starts (line 72-74): it is logged.
ConsumeError ==
    /\ cproc = "running"
    /\ lpc = "consume"
    /\ attempts < MaxAttempts
    /\ lpc' = "afterConsume"
    /\ attempts' = attempts + 1
    /\ UNCHANGED <<brokerVars, producerVars, hkind, backOff, cproc, mpc, ctxCancelled, wg, readyCh,
                   closedCh, mainCh, sessionVars, metricVars, historyVars,
                   groupVars, countVars>>

\* Consume starts a session: the process joins the group, Setup closes the
\* handler's ready channel, which panics when it is closed already, and every
\* partition is claimed from its committed offset (the oldest record when none
\* is committed).
Setup ==
    /\ cproc = "running"
    /\ lpc = "consume"
    /\ attempts < MaxAttempts
    /\ IF readyCh \in closedCh
       THEN Crash("closePanic")
       ELSE /\ closedCh' = closedCh \cup {readyCh}
            /\ member' = member \cup {starts}
            /\ lpc' = "session"
            /\ attempts' = attempts + 1
            /\ position' = committed
            /\ marked' = committed
            /\ buffered' = committed
            /\ cl' = [p \in Partitions |-> "range"]
            /\ UNCHANGED <<brokerVars, producerVars, hkind, backOff, cproc, mpc, ctxCancelled, wg,
                           readyCh, mainCh, metricVars, historyVars, errorsCh,
                           countVars>>

\* for message := range claim.Messages(): the loop of a partition receives its
\* next record; after the session has ended, only the records buffered by then.
ReceiveMessage(p) ==
    /\ cproc = "running"
    /\ cl[p] = "range"
    /\ IF lpc = "session" THEN position[p] < Len(log[p])
       ELSE lpc = "draining" /\ position[p] < buffered[p]
    /\ position' = [position EXCEPT ![p] = @ + 1]
    /\ cl' = [cl EXCEPT ![p] = "got"]
    /\ redeliv' = IF crashes = 1 /\ <<p, position[p]>> \in DOMAIN redeliv
                  THEN [redeliv EXCEPT ![<<p, position[p]>>] = @ + 1]
                  ELSE redeliv
    /\ pulled' = IF hkind = "Handler" THEN pulled + 1 ELSE pulled
    /\ UNCHANGED <<brokerVars, producerVars, hkind, backOff, processVars, marked, buffered,
                   metricVars, handled, starts, crashes, groupVars, markCalls>>

\* Mutant: a record that fails decoding ends the loop.
StopOnMalformed(p) ==
    /\ ErrorsCount' = ErrorsCount + 1
    /\ cl' = [cl EXCEPT ![p] = "returned"]
    /\ UNCHANGED MessagesConsumed

\* Mutant: a record that fails decoding is counted as consumed as well.
SkipAndCount(p) ==
    /\ ErrorsCount' = ErrorsCount + 1
    /\ MessagesConsumed' = MessagesConsumed + 1
    /\ cl' = [cl EXCEPT ![p] = "range"]

\* Handler.ConsumeClaim lines 70-73: count the error and continue with the
\* next record, without marking this one.
SkipMalformed(p) ==
    /\ ErrorsCount' = ErrorsCount + 1
    /\ cl' = [cl EXCEPT ![p] = "range"]
    /\ UNCHANGED MessagesConsumed

\* The loop body up to MarkMessage. Handler (lines 67-82): decode, then count
\* the record as an error or as consumed. ConsumerHandler (lines 33-37): log it.
ProcessMessage(p) ==
    /\ cproc = "running"
    /\ InSession
    /\ cl[p] = "got"
    /\ handled' = handled \cup {<<p, CurOffset(p)>>}
    /\ IF hkind = "Handler"
       THEN IF Unmarshal(CurRecord(p).value).err # Nil
            THEN SkipMalformed(p)
            ELSE /\ MessagesConsumed' = MessagesConsumed + 1
                 /\ cl' = [cl EXCEPT ![p] = "processed"]
                 /\ UNCHANGED ErrorsCount
       ELSE /\ cl' = [cl EXCEPT ![p] = "processed"]
            /\ UNCHANGED metricVars
    /\ UNCHANGED <<brokerVars, producerVars, hkind, backOff, processVars, position, marked,
                   buffered, redeliv, starts, crashes, groupVars, countVars>>

\* Mutant: the record is marked as soon as it is received.
MarkOnReceipt(p) == cl[p] \in {"got", "processed"}

\* session.MarkMessage is the last statement of the loop body.
ReadyToMark(p) == cl[p] = "processed"

\* session.MarkMessage(message, ""): the partition's marked offset becomes one
\* past the record, if that is an advance.
MarkMessage(p) ==
    /\ cproc = "running"
    /\ InSession
    /\ ReadyToMark(p)
    /\ marked' = [marked EXCEPT ![p] = Max(@, CurOffset(p) + 1)]
    /\ cl' = [cl EXCEPT ![p] = "range"]
    /\ markCalls' = IF hkind = "Handler" THEN markCalls + 1 ELSE markCalls
    /\ UNCHANGED <<brokerVars, producerVars, hkind, backOff, processVars, position, buffered,
                   metricVars, historyVars, groupVars, pulled>>

\* The client's periodic commit of a partition's marked offset.
AutoCommit(p) ==
    /\ cproc = "running"
    /\ InSession
    /\ marked[p] > committed[p]
    /\ committed' = [committed EXCEPT ![p] = marked[p]]
    /\ UNCHANGED <<log, producerVars, hkind, backOff, processVars, sessionVars, metricVars,
                   historyVars,
                   groupVars, countVars>>

\* The session ends, by a rebalance or because the context is cancelled: the
\* claims' channels are closed, holding the records fetched so far.
SessionEnd ==
    /\ cproc = "running"
    /\ lpc = "session"
    /\ lpc' = "draining"
    /\ \E b \in [Partitions -> 0..MaxLog] :
        /\ \A p \in Partitions : position[p] <= b[p] /\ b[p] <= Len(log[p])
        /\ buffered' = b
    /\ UNCHANGED <<brokerVars, producerVars, hkind, backOff, cproc, mpc, ctxCancelled, wg, readyCh,
                   closedCh, mainCh, attempts, position, marked, cl, metricVars,
                   historyVars,
                   groupVars, countVars>>

\* Every ConsumeClaim loop has returned: Cleanup calls wg.Done(), which panics
\* on a counter of zero; then the session's marked offsets are committed and
\* Consume returns.
Cleanup ==
    /\ cproc = "running"
    /\ lpc = "draining"
    /\ \A p \in Partitions : cl[p] = "range" /\ position[p] >= buffered[p]
    /\ IF wg = 0
       THEN Crash("donePanic")
       ELSE /\ wg' = wg - 1
            /\ committed' = [p \in Partitions |-> Max(committed[p], marked[p])]
            /\ lpc' = "afterConsume"
            /\ UNCHANGED <<log, producerVars, hkind, backOff, cproc, mpc, ctxCancelled, readyCh,
                           closedCh, mainCh, attempts, sessionVars, metricVars,
                           historyVars,
                   groupVars, countVars>>

\* Mutant: the consume loop keeps the ready channel it has.
SameReady == readyCh

\* handler.ready = make(chan bool) (line 78): a channel never used before. A
\* kafka.Handler has no such assignment and keeps the channel NewHandler made.
FreshReady == IF hkind = "ConsumerHandler" THEN readyCh + 1 ELSE readyCh

\* The consume loop after Consume (lines 75-78): return when the context is
\* cancelled, else install a fresh ready channel in the ConsumerHandler and
\* loop.
LoopAfterConsume ==
    /\ cproc = "running"
    /\ lpc = "afterConsume"
    /\ IF ctxCancelled
       THEN lpc' = "done" /\ UNCHANGED readyCh
       ELSE /\ lpc' = "consume"
            /\ readyCh' = FreshReady
    /\ UNCHANGED <<brokerVars, producerVars, hkind, backOff, cproc, mpc, ctxCancelled, wg,
                   closedCh, mainCh, attempts, sessionVars, metricVars, historyVars,
                   groupVars, countVars>>

\* main line 82 evaluates handler.ready, the channel it will receive from.
MainReadReady ==
    /\ cproc = "running"
    /\ mpc = "start"
    /\ mainCh' = readyCh
    /\ mpc' = "waitReady"
    /\ UNCHANGED <<brokerVars, producerVars, hkind, backOff, cproc, lpc, ctxCancelled, wg, readyCh,
                   closedCh, attempts, sessionVars, metricVars, historyVars,
                   groupVars, countVars>>

\* main line 82-83: the receive returns once that channel is closed.
MainReady ==
    /\ cproc = "running"
    /\ mpc = "waitReady"
    /\ mainCh \in closedCh
    /\ mpc' = "waitSignal"
    /\ UNCHANGED <<brokerVars, producerVars, hkind, backOff, cproc, lpc, ctxCancelled, wg, readyCh,
                   closedCh, mainCh, attempts, sessionVars, metricVars, historyVars,
                   groupVars, countVars>>

\* main lines 86-89: the shutdown signal arrives and main cancels the context.
ShutdownSignal ==
    /\ cproc = "running"
    /\ mpc = "waitSignal"
    /\ ctxCancelled' = TRUE
    /\ mpc' = "waitWg"
    /\ UNCHANGED <<brokerVars, producerVars, hkind, backOff, cproc, lpc, wg, readyCh, closedCh,
                   mainCh, attempts, sessionVars, metricVars, historyVars,
                   groupVars, countVars>>

\* main line 90-91: wg.Wait() returns when the counter is zero, main returns
\* and the process exits, whatever its other goroutines are doing.
MainReturn ==
    /\ cproc = "running"
    /\ mpc = "waitWg"
    /\ wg = 0
    /\ ProcessGone("exited")
    /\ UNCHANGED <<brokerVars, producerVars, hkind, backOff, historyVars, member>>

\* The consumer group reports an error of the session (a lost connection, a
\* failed fetch or commit) on its Errors() channel, as Consumer.Return.Errors
\* = true makes it do. Nothing in the process receives from that channel.
AsyncError ==
    /\ cproc = "running"
    /\ InSession
    /\ errorsCh < MaxAsyncErrors
    /\ errorsCh' = errorsCh + 1
    /\ UNCHANGED <<brokerVars, producerVars, hkind, backOff, processVars, sessionVars, metricVars,
                   historyVars, member, countVars>>

\* The coordinator's session timeout (10 s, NewConsumer line 26) for a member
\* that sends no heartbeat any more: it is removed from the group. The process
\* has no other way out of the group: nothing calls Close on the consumer group.
SessionTimeout(g) ==
    /\ g \in member
    /\ ~(cproc = "running" /\ g = starts)
    /\ member' = member \ {g}
    /\ UNCHANGED <<brokerVars, producerVars, hkind, backOff, processVars, sessionVars, metricVars,
                   historyVars, errorsCh, countVars>>

ConsumerNext ==
    \/ Kill
    \/ StartConsumer
    \/ ConsumeError
    \/ Setup
    \/ \E p \in Partitions : ReceiveMessage(p)
    \/ \E p \in Partitions : ProcessMessage(p)
    \/ \E p \in Partitions : MarkMessage(p)
    \/ \E p \in Partitions : AutoCommit(p)
    \/ SessionEnd
    \/ Cleanup
    \/ LoopAfterConsume
    \/ MainReadReady
    \/ MainReady
    \/ ShutdownSignal
    \/ MainReturn
    \/ AsyncError
    \/ \E g \in 1..MaxStarts : SessionTimeout(g)

\* ---------------------------------------------------------- retry policy
\* Durations are in milliseconds; Multiplier and RandomizationFactor are float64
\* in the code and are kept here in tenths.

\* retry.go:16-23.
NewRetryConfig ==
    [MaxRetries |-> 5, InitialInterval |-> 100, MaxInterval |-> MaxInterval, Multiplier |-> 2]

\* The configurations a caller builds a policy from: the default one and one
\* with a single retry.
RetryConfigs == {NewRetryConfig, [NewRetryConfig EXCEPT !.MaxRetries = 1]}

\* backoff.NewExponentialBackOff(): the library's defaults, then Reset(), which
\* sets currentInterval from the InitialInterval of that moment.
NewExponentialBackOff ==
    [InitialInterval     |-> 500,
     RandomizationFactor |-> 5,
     Multiplier          |-> 15,
     MaxInterval         |-> 60000,
     MaxElapsedTime      |-> 900000,
     currentInterval     |-> 500]

\* b.Reset(): what backoff.Retry does before its first attempt.
Reset(b) == [b EXCEPT !.currentInterval = b.InitialInterval]

\* retry.go:25-32: the four assignments; currentInterval is not touched.
BackOffOf(rc) ==
    [NewExponentialBackOff EXCEPT
        !.InitialInterval = rc.InitialInterval,
        !.MaxInterval     = rc.MaxInterval,
        !.Multiplier      = 10 * rc.Multiplier,
        !.MaxElapsedTime  = rc.MaxRetries * rc.MaxInterval]

NoBackOff ==
    [pc |-> "none", rc |-> NewRetryConfig, reset |-> FALSE, b |-> NewExponentialBackOff,
     elapsed |-> 0, retries |-> 0, nominal |-> TRUE]

\* A caller builds the policy and either hands it to backoff.Retry, which
\* resets it, or calls NextBackOff on it directly.
CreateBackOff(rc, reset) ==
    /\ backOff.pc = "none"
    /\ backOff' = [pc |-> "running", rc |-> rc, reset |-> reset,
                   b |-> IF reset THEN Reset(BackOffOf(rc)) ELSE BackOffOf(rc),
                   elapsed |-> 0, retries |-> 0, nominal |-> TRUE]
    /\ UNCHANGED kafkaVars

\* The ends and the centre of the interval getRandomValueFromInterval draws from.
Jitter == {-1, 0, 1}

RandomValueFromInterval(b, j) ==
    b.currentInterval + j * ((b.RandomizationFactor * b.currentInterval) \div 10)

\* incrementCurrentInterval: multiply, capped at MaxInterval.
IncrementCurrentInterval(b) ==
    [b EXCEPT !.currentInterval =
        IF b.currentInterval * b.Multiplier >= b.MaxInterval * 10
        THEN b.MaxInterval
        ELSE (b.currentInterval * b.Multiplier) \div 10]

\* One failed attempt: NextBackOff either grants a retry after the drawn delay or
\* returns Stop, when the delay would carry the elapsed time past
\* MaxElapsedTime. The attempts themselves take no time here, which is the case
\* that allows the most retries.
NextBackOff(j) ==
    /\ backOff.pc = "running"
    /\ LET next == RandomValueFromInterval(backOff.b, j)
           b2   == IncrementCurrentInterval(backOff.b)
       IN  IF backOff.elapsed + next > backOff.b.MaxElapsedTime
           THEN backOff' = [backOff EXCEPT !.pc = "stopped", !.b = b2]
           ELSE backOff' = [backOff EXCEPT !.b = b2,
                                           !.elapsed = @ + next,
                                           !.retries = @ + 1,
                                           !.nominal = @ /\ j = 0]
    /\ UNCHANGED kafkaVars

\* ---------------------------------------------------------- specification

Init ==
    /\ log = [p \in Partitions |-> <<>>]
    /\ committed = [p \in Partitions |-> 0]
    /\ producer = NewProducer
    /\ ppc = "select"
    /\ ticketCounter = 0
    /\ call = NoCall
    /\ MessagesProduced = 0
    /\ ProducerErrors = 0
    /\ hkind \in HandlerKinds
    /\ cproc = "running"
    /\ mpc = "start"
    /\ lpc = "consume"
    /\ ctxCancelled = FALSE
    /\ wg = 1
    /\ readyCh = 0
    /\ closedCh = {}
    /\ mainCh = -1
    /\ attempts = 0
    /\ position = [p \in Partitions |-> 0]
    /\ marked = [p \in Partitions |-> 0]
    /\ buffered = [p \in Partitions |-> 0]
    /\ cl = [p \in Partitions |-> "range"]
    /\ MessagesConsumed = 0
    /\ ErrorsCount = 0
    /\ redeliv = [h \in {} |-> 0]
    /\ handled = {}
    /\ starts = 1
    /\ crashes = 0
    /\ member = {}
    /\ errorsCh = 0
    /\ pulled = 0
    /\ markCalls = 0
    /\ backOff = NoBackOff

Next ==
    \/ \E p \in Partitions : ForeignAppend(p)
    \/ ProducerNext
    \/ SendMessageRetry
    \/ ConsumerNext
    \/ \E rc \in RetryConfigs, reset \in BOOLEAN : CreateBackOff(rc, reset)
    \/ \E j \in Jitter : NextBackOff(j)

Spec == Init /\ [][Next]_vars

\* The producer side alone: the producer loop, direct callers of SendTicket,
\* the broker's part in a send, and other writers of the topic. Every send is
\* answered at its first attempt.
NextProducer ==
    \/ \E p \in Partitions : ForeignAppend(p)
    \/ ProducerNext

SpecProducer == Init /\ [][NextProducer]_vars

\* The producer process alone publishes: cmd/producer main with its loop, the
\* broker's part in a send with the client's retries, signals and restarts of
\* the process.
NextLoop ==
    \/ \E id \in TicketIDs : ProducerTick(id)
    \/ BrokerAppend
    \/ SendMessageRetry
    \/ SendMessageOk
    \/ SendMessageErr
    \/ SendTicketReturn
    \/ ProducerSignal
    \/ ProducerStart

SpecLoop == Init /\ [][NextLoop]_vars

\* Tickets of TestProducer_SendTicket's shape: one ID, the current time, and
\* the order identifier of the test (1) or the producer loop's first (0).
TestTickets == {t \in Tickets : t.ID = <<97>> /\ t.Timestamp = 2026 /\ t.OrderID \in {0, 1}}

\* Publication and consumption: direct callers of SendTicket and other
\* writers fill the topic while sessions consume it, end by rebalance, and
\* the consumer process is killed and started again.
NextOrder ==
    \/ \E p \in Partitions : ForeignAppend(p)
    \/ \E t \in TestTickets : CallSendTicket(t)
    \/ BrokerAppend
    \/ SendMessageOk
    \/ SendTicketReturn
    \/ Kill
    \/ StartConsumer
    \/ Setup
    \/ \E p \in Partitions : ReceiveMessage(p)
    \/ \E p \in Partitions : ProcessMessage(p)
    \/ \E p \in Partitions : MarkMessage(p)
    \/ \E p \in Partitions : AutoCommit(p)
    \/ SessionEnd
    \/ Cleanup
    \/ LoopAfterConsume

SpecOrder == Init /\ [][NextOrder]_vars

\* The consumer process alone, over a topic other writers fill: the whole of
\* cmd/consumer main with its consume loop, sessions, kills and restarts.
NextConsumer ==
    \/ \E p \in Partitions : ForeignAppend(p)
    \/ ConsumerNext

SpecConsumer == Init /\ [][NextConsumer]_vars

\* The goroutines of cmd/consumer main over an empty topic: Consume attempts,
\* sessions and their ends, the shutdown signal, kills and restarts.
NextMain ==
    \/ Kill
    \/ StartConsumer
    \/ ConsumeError
    \/ Setup
    \/ SessionEnd
    \/ Cleanup
    \/ LoopAfterConsume
    \/ MainReadReady
    \/ MainReady
    \/ ShutdownSignal
    \/ MainReturn

SpecMain == Init /\ [][NextMain]_vars

\* The same, with the scheduling of the two goroutines: a goroutine that can
\* take its next step takes it (main at its receive from the ready channel,
\* the consume loop after Consume returned, the session at its Cleanup).
\* Kills, signals, Consume errors and session ends come when they come.
SpecMainFair ==
    /\ Init
    /\ [][NextMain]_vars
    /\ WF_vars(MainReadReady)
    /\ WF_vars(MainReady)
    /\ WF_vars(LoopAfterConsume)
    /\ WF_vars(Cleanup)

\* A caller of the retry policy: build it, then ask it after every failure.
NextRetry ==
    \/ \E rc \in RetryConfigs, reset \in BOOLEAN : CreateBackOff(rc, reset)
    \/ \E j \in Jitter : NextBackOff(j)

SpecRetry == Init /\ [][NextRetry]_vars

\* ----------------------------------------------------------------- claims

\* The places of the topic: <<partition, index>> of every record.
Entries == UNION {{<<p, i>> : i \in 1..Len(log[p])} : p \in Partitions}
Rec(e) == log[e[1]][e[2]]
\* A record SendTicket published (its value is a ticket's JSON).
IsTicket(r) == r.value.json
Handled(e) == <<e[1], e[2] - 1>> \in handled

\* C1: of two tickets with the same OrderID, the one published first is
\* processed by ConsumeClaim before the other: whenever the later one has been
\* processed, so has the earlier one, whatever else was published, with kills,
\* restarts and rebalances in between.
C1_OrderedDelivery ==
    \A e1 \in Entries : \A e2 \in Entries :
        ( /\ IsTicket(Rec(e1)) /\ IsTicket(Rec(e2))
          /\ Rec(e1).value.order_id = Rec(e2).value.order_id
          /\ Rec(e1).seq < Rec(e2).seq
          /\ Handled(e2) )
        => Handled(e1)

\* Two tickets of one OrderID are published one after the other and both have
\* been processed.
C1_Witness ==
    \E e1 \in Entries : \E e2 \in Entries :
        /\ IsTicket(Rec(e1)) /\ IsTicket(Rec(e2))
        /\ Rec(e1).value.order_id = Rec(e2).value.order_id
        /\ Rec(e1).seq < Rec(e2).seq
        /\ Handled(e1) /\ Handled(e2)

C3_SendTicketReturnsNil ==
    (call.pc = "done" /\ call.err = Nil) =>
        (call.outcome = "nil" /\ MessagesProduced = call.produced0 + 1)

\* C4: a partition's marked offset and its committed offset are at most one
\* past the last record whose handling ConsumeClaim has finished, and every
\* record below the committed offset has been handled.
C4_MarkAfterProcessing ==
    \A p \in Partitions :
        /\ marked[p] <= HandledUpTo(p)
        /\ committed[p] <= HandledUpTo(p)
        /\ \A off \in 0..(committed[p] - 1) : <<p, off>> \in handled

\* A record has been processed, marked and committed.
C4_Witness ==
    \E p \in Partitions : committed[p] >= 1 /\ <<p, committed[p] - 1>> \in handled

\* C5: after the consumer process died once, with records handled and their
\* offsets not committed, and no crash since, each of these records is
\* delivered to ConsumeClaim again exactly once: never more than once, and at
\* least once by the time a session of the restarted process is past it.
C5_RedeliveredOnce ==
    crashes = 1 =>
        \A h \in DOMAIN redeliv :
            /\ redeliv[h] <= 1
            /\ (cproc = "running" /\ InSession /\ position[h[1]] > h[2])
                  => redeliv[h] = 1

\* C6: the step in which Handler.ConsumeClaim finishes with a record that
\* fails decoding adds one to errors_total, leaves messages_consumed_total as
\* it is, and leaves the loop of that partition ready for the next record.
C6_MalformedSkipped ==
    [][ \A p \in Partitions :
          ( /\ hkind = "Handler"
            /\ cl[p] = "got"
            /\ cl'[p] # "got"
            /\ cproc' = "running"
            /\ Unmarshal(CurRecord(p).value).err # Nil )
          => ( /\ ErrorsCount' = ErrorsCount + 1
               /\ MessagesConsumed' = MessagesConsumed
               /\ cl'[p] = "range"
               /\ position'[p] = position[p]
               /\ lpc' = lpc ) ]_vars

\* In one process a Handler has skipped a malformed record and then consumed
\* the ticket behind it in the same partition.
C6_Witness ==
    \E p \in Partitions :
        /\ hkind = "Handler"
        /\ Len(log[p]) >= 2
        /\ ~IsTicket(log[p][1]) /\ IsTicket(log[p][2])
        /\ position[p] = 2 /\ cl[p] = "range"
        /\ ErrorsCount = 1 /\ MessagesConsumed = 1

\* C7: once Handler.ConsumeClaim is done with a record that fails decoding,
\* the partition's marked offset is past that record.
C7_MarkedPastMalformed ==
    \A p \in Partitions :
        ( /\ hkind = "Handler"
          /\ cproc = "running"
          /\ InSession
          /\ cl[p] = "range"
          /\ position[p] >= 1
          /\ ~IsTicket(log[p][position[p]]) )
        => marked[p] >= position[p]

C9_SendErrorReturned ==
    [][ /\ (call.pc = "sent" /\ call.err # Nil /\ call'.pc = "done")
           => ( /\ call'.outcome = "err"
                /\ ProducerErrors' = ProducerErrors + 1
                /\ call.caller = "main" => ppc' = "select" )
        /\ (CallFree /\ call'.pc = "done" /\ call' # call)
           => (call'.outcome = "err" /\ log' = log) ]_vars

\* C10: main returns from wg.Wait() only when no consumer-group session is
\* active.
C10_ExitWaitsForSession ==
    [][ (mpc = "waitWg" /\ mpc' = "returned") => ~InSession ]_vars

\* C11: when main returns after a shutdown signal, the process has left the
\* consumer group: the coordinator no longer holds it as a member.
C11_LeavesGroupOnExit ==
    [][ (hkind = "ConsumerHandler" /\ mpc = "waitWg" /\ mpc' = "returned")
            => starts \notin member' ]_vars

\* C12: the log never holds two entries of the producer loop that carry the
\* same OrderID.
C12_NoDuplicateEntries ==
    \A e1 \in Entries : \A e2 \in Entries :
        ( /\ IsTicket(Rec(e1)) /\ IsTicket(Rec(e2))
          /\ Rec(e1).value.order_id = Rec(e2).value.order_id )
        => e1 = e2

\* C13: a call of the producer loop whose send failed has retried at most
\* Retry.Max times, each retry after a longer delay than the one before until
\* the ceiling is reached, and then returns the error to the loop.
C13_BoundedBackoffThenFailure ==
    [][ (call.caller = "main" /\ call.pc = "sent" /\ call.err # Nil /\ call'.pc = "done")
        => ( /\ call.retries <= producer.RetryMax
             /\ \A n \in 2..call.retries :
                    \/ RetryBackoff(n) > RetryBackoff(n - 1)
                    \/ RetryBackoff(n) >= MaxInterval
             /\ call'.outcome = "err" ) ]_vars

\* C14: no step lowers the committed offset of a partition, whatever sessions
\* end, kills and restarts happen, and every MarkMessage call of a session
\* marks a higher offset of its partition than any marked before in it.
C14_OffsetsNeverRegress ==
    [][ \A p \in Partitions :
          /\ committed'[p] >= committed[p]
          /\ (InSession /\ InSession' /\ cproc' = "running")
                => marked'[p] >= marked[p]
          /\ (InSession /\ InSession' /\ cproc' = "running"
                /\ cl[p] = "processed" /\ cl'[p] = "range")
                => (marked'[p] = CurOffset(p) + 1 /\ marked'[p] > marked[p]) ]_vars

\* A restarted process is in a session that has marked the second record of a
\* partition whose first record was committed before.
C14_Witness ==
    \E p \in Partitions :
        /\ crashes >= 1
        /\ cproc = "running"
        /\ InSession
        /\ committed[p] >= 1
        /\ marked[p] >= 2

\* C15: an error the consumer group reported on its Errors() channel is not
\* dropped: when main returns and the process exits, no error is waiting
\* unread on the channel.
C15_NoErrorLeftUnread ==
    [][ (hkind = "ConsumerHandler" /\ mpc = "waitWg" /\ mpc' = "returned")
            => errorsCh = 0 ]_vars

\* C16: when a SendTicket call of the producer loop is over, the loop is back
\* at its select for the next tick; ticketCounter is one more than before if
\* SendMessage had returned nil, and as before if the send had failed.
C16_CounterMonotonic ==
    [][ (call.caller = "main" /\ call.pc = "sent" /\ call'.pc = "done")
        => ( /\ ppc' = "select"
             /\ ticketCounter' = IF call.err = Nil THEN ticketCounter + 1
                                                  ELSE ticketCounter ) ]_vars

\* C17: the message SendTicket hands to SendMessage has a key of at least one
\* byte, and so has every ticket in the log, whatever the OrderID.
C17_KeyNeverEmpty ==
    /\ call.pc \in {"sending", "appended", "sent"} => Len(call.msg.Key) >= 1
    /\ \A e \in Entries : IsTicket(Rec(e)) => Len(Rec(e).key) >= 1

\* Tickets of OrderID 0 and of a negative OrderID have been published.
C17_Witness ==
    /\ \E e \in Entries : IsTicket(Rec(e)) /\ Rec(e).value.order_id = 0
    /\ \E e \in Entries : IsTicket(Rec(e)) /\ Rec(e).value.order_id < 0

\* C18: in a process consuming with kafka.Handler, every record ConsumeClaim
\* has received and finished with is counted once, in MessagesConsumed or in
\* ErrorsCount, and MarkMessage has been called once for every record counted
\* in MessagesConsumed and for no other (but for the records a loop is still
\* working on: received and not counted yet, or counted and not marked yet).
C18_CountersMatchRecords ==
    (hkind = "Handler" /\ cproc = "running") =>
        LET got       == Cardinality({p \in Partitions : cl[p] = "got"})
            processed == Cardinality({p \in Partitions : cl[p] = "processed"})
        IN  /\ MessagesConsumed + ErrorsCount + got = pulled
            /\ markCalls + processed = MessagesConsumed

\* A Handler has received a malformed record and a ticket, is done with both,
\* and has marked one.
C18_Witness ==
    /\ hkind = "Handler"
    /\ cproc = "running"
    /\ \A p \in Partitions : cl[p] = "range"
    /\ pulled = 2
    /\ ErrorsCount = 1
    /\ MessagesConsumed = 1
    /\ markCalls = 1

\* C19: in cmd/consumer no Cleanup calls wg.Done() on a counter that is zero
\* already: the counter never drops below zero and the process never dies of
\* a negative WaitGroup counter.
C19_WaitGroupNeverNegative ==
    hkind = "ConsumerHandler" => (wg >= 0 /\ cproc # "donePanic")

\* C20: in cmd/consumer the channel Setup is about to close has never been
\* closed before, at every attempt of the consume loop, and the process never
\* dies of closing a closed channel.
C20_ReadyClosedOnce ==
    hkind = "ConsumerHandler" =>
        /\ cproc # "closePanic"
        /\ (cproc = "running" /\ lpc = "consume") => readyCh \notin closedCh

\* The ConsumerHandler's Setup has run twice in one process, closing two
\* different channels.
C20_Witness ==
    /\ hkind = "ConsumerHandler"
    /\ cproc = "running"
    /\ Cardinality(closedCh) = 2

\* C21: in cmd/consumer, once a Consume attempt of the process has reached
\* Setup (a ready channel is closed), main gets past its wait for readiness
\* (or the process is gone).
C21_MainBecomesReady ==
    (hkind = "ConsumerHandler" /\ cproc = "running" /\ closedCh # {})
        ~> (mpc \notin {"start", "waitReady"})

\* C22: a process that consumes with a kafka.Handler never dies in a Setup or
\* a Cleanup call of the Handler, however many sessions it serves.
C22_HandlerServesSessions ==
    hkind = "Handler" => cproc \notin {"closePanic", "donePanic"}

\* C23: the policy built from the default RetryConfig, driven with its nominal
\* delays from InitialInterval on, grants at most MaxRetries retries.
C23_StopsAfterMaxRetries ==
    (backOff.pc # "none" /\ backOff.rc = NewRetryConfig /\ backOff.reset /\ backOff.nominal)
        => backOff.retries <= backOff.rc.MaxRetries

\* C24: once the context is cancelled, ConsumeClaim takes no further record
\* from the claim.
C24_NoRecordAfterCancel ==
    [][\A p \in Partitions :
          ~(ctxCancelled /\ cproc = "running" /\ cl[p] = "range" /\ cl'[p] = "got")]_vars

=============================================================================
